---- MODULE Spec2Model ----
(***************************************************************************)
(* A model of the training programs of the dl-workshop notebooks:          *)
(*   notebooks/03-stax/01-linear.ipynb  (linear regression, adam, the      *)
(*       lax.scan training loop and the vmap-ed training starts) and       *)
(*   notebooks/04-gaussian-clustering/01-intro-gaussian-clustering.ipynb   *)
(*       (the same adam / lax.scan loop over the mixture loss), and of     *)
(*   unnamed/part_000 (the Gaussian random walk in pure Python).           *)
(*                                                                         *)
(* Real numbers are fixed-point integers: a value r is held as the integer *)
(* floor(r * SCALE); the second-moment accumulator is held at the finer    *)
(* resolution SCALE * SCALE.  Arrays are sequences, 1-based.               *)
(*                                                                         *)
(* The optimizer state of the library is the triple (x, m, v).  The step   *)
(* count is not part of that triple: the driver hands it to update as the  *)
(* index i.  The "step counter of the Optimizer State" of the description  *)
(* is read here as the index the fold pairs with the carried state (idx    *)
(* for lax.scan, runs[r].idx inside vmap).                                 *)
(***************************************************************************)
EXTENDS Integers, Sequences, FiniteSets, TLC

VARIABLES
    key,              \* key = random.PRNGKey(seed)
    X,                \* the design matrix, a sequence of rows
    y_true,           \* the targets, one per row
    params_initial,   \* the parameters init_fun(key, ...) returned
    num_iterations,   \* the length of np.arange(...) handed to lax.scan
    pc,               \* the notebook cell, and the statement of it, being executed
    loop_i,           \* i of "for i in range(...)" in the explicit loop
    loop_state,       \* state of the explicit loop
    loop_params,      \* params of the explicit loop
    loop_g,           \* g of the explicit loop
    loop_calls,       \* trace of the calls update(i, g, state) of the explicit loop
    initial_state,    \* initial_state = init(params_initial)
    carry,            \* the state lax.scan carries
    idx,              \* how many entries of xs lax.scan has consumed
    ys,               \* the outputs lax.scan has stacked so far
    calls,            \* trace of what the running scan handed to its function
    final_state,      \* first result of lax.scan
    states_history,   \* second result of lax.scan
    executions,       \* the results of the completed executions of the scan cell
    runs,             \* vmap(train_linear): one scan per initialization key
    final_states,     \* first result of vmap(train_linear)(initialization_keys)
    states_histories, \* second result of vmap(train_linear)(initialization_keys)
    call,             \* the latest call of a mixture function: its arguments and outcome
    data_mixture,     \* data_mixture = np.concatenate([draws_1, draws_2])
    params_init,      \* params_init of the mixture notebook
    grads,            \* the output of dloss_mixture_weights(params_init, data_mixture)
    params_opt,       \* params_opt = adam_get_params(final_state)
    loss_log,         \* the outputs of the cells that evaluate loss_mixture_weights
    init_log,         \* the parameters each execution of the initialization cell made
    part_i,           \* i of the loop over step_partial
    part_state,       \* state of the loop over step_partial
    part_history,     \* the states the loop over step_partial has assigned to state
    jit_cache,        \* what jit has compiled for step_partial_jit, one entry per signature
    jit_i,            \* i of the loop over step_partial_jit
    jit_state,        \* state of the loop over step_partial_jit
    jit_history,      \* the states the loop over step_partial_jit has assigned to state
    jit_final_states,     \* first result of vmap(train_linear_jit)(initialization_keys)
    jit_states_histories, \* second result of vmap(train_linear_jit)(initialization_keys)
    key_uses,         \* which statement handed which key to a split or a draw
    num_realizations, \* first argument of gaussian_random_walk_python
    num_timesteps,    \* second argument of gaussian_random_walk_python
    generator,        \* the state of the global generator behind onp.random
    walk_i,           \* how many values of range(num_realizations) the outer loop has taken
    walk_t,           \* how many values of range(num_timesteps) the inner loop has taken
    rws,              \* rws of gaussian_random_walk_python
    rw,               \* rw of gaussian_random_walk_python
    prev_draw,        \* prev_draw of gaussian_random_walk_python
    draw_calls,       \* trace of the calls onp.random.normal(loc=prev_draw)
    trajectories_python  \* trajectories_python = gaussian_random_walk_python(...)

inputs   == << key, X, y_true, params_initial, num_iterations, key_uses >>
loopvars == << loop_i, loop_state, loop_params, loop_g, loop_calls >>
scanvars == << initial_state, carry, idx, ys, calls >>
scanout  == << final_state, states_history, executions >>
vmapvars == << runs, final_states, states_histories >>

mixvars  == << data_mixture, params_init, grads, params_opt, loss_log, init_log >>

partvars == << part_i, part_state, part_history >>
jitvars  == << jit_cache, jit_i, jit_state, jit_history, jit_final_states,
               jit_states_histories >>

walkvars == << num_realizations, num_timesteps, generator, walk_i, walk_t, rws, rw,
               prev_draw, draw_calls, trajectories_python >>

\* what the training cells of the linear-regression notebook leave alone
others == << call, mixvars, partvars, jitvars, walkvars >>

vars == << inputs, pc, loopvars, scanvars, scanout, vmapvars, others >>

----------------------------------------------------------------------------
(* Bounds of the model.                                                    *)

MaxSeed == 7            \* seeds 0..MaxSeed are tried for random.PRNGKey
MaxIter == 3            \* num_iterations ranges over 0..MaxIter (1000 in the notebooks)
N_SAMPLES == 2          \* rows of X (200 in the notebook)
N_COLUMNS == 2          \* columns of X (4 in the notebook)
N_INITIALIZATIONS == 2  \* training starts under vmap (100 in the notebook)
MaxExecutions == 2      \* how often the scan cell is executed
base_n_draws == 1       \* draws per unit of weight in the mixture data (1000 in the notebook)
MaxRealizations == 2    \* num_realizations ranges over -1..MaxRealizations (500 in the notebook)
MaxTimesteps == 3       \* num_timesteps ranges over -1..MaxTimesteps (10000 in the notebook)

----------------------------------------------------------------------------
(* Fixed-point arithmetic.                                                 *)

SCALE == 1000

Mul(a, b) == (a * b) \div SCALE

Div(a, b) == (a * SCALE) \div b

RECURSIVE Pow(_, _)
Pow(b, n) == IF n = 0 THEN SCALE ELSE Mul(b, Pow(b, n - 1))

RECURSIVE SqrtBetween(_, _, _)
SqrtBetween(n, lo, hi) ==
    IF lo >= hi THEN lo
    ELSE LET mid == (lo + hi + 1) \div 2
         IN  IF mid * mid <= n THEN SqrtBetween(n, mid, hi)
                               ELSE SqrtBetween(n, lo, mid - 1)

\* floor of the square root of n >= 0 (46340 is the largest root of a 32-bit integer)
Sqrt(n) == SqrtBetween(n, 0, 46340)

RECURSIVE Sum(_)
Sum(s) == IF s = << >> THEN 0 ELSE Head(s) + Sum(Tail(s))

----------------------------------------------------------------------------
(* Floating-point values of the mixture notebook.  A float is a fixed-point *)
(* integer of magnitude at most MaxFloat, or one of the non-finite values   *)
(* Inf, -Inf and NaN.  A result beyond MaxFloat overflows to an infinity,   *)
(* a result below one unit underflows to 0, and NaN is absorbing.           *)

MaxFloat == 1000000000
Inf == 2000000000
NaN == 2100000000

Abs(a) == IF a < 0 THEN -a ELSE a

IsNaN(a) == a = NaN

IsInf(a) == a = Inf \/ a = -Inf

IsFinite(a) == ~IsNaN(a) /\ ~IsInf(a)

\* a finite exact result r, rounded into the float range
Overflow(r) == IF r > MaxFloat THEN Inf ELSE IF r < -MaxFloat THEN -Inf ELSE r

\* floor(p * q / SCALE) for p, q >= 0, computed without leaving 32 bits; Inf when
\* the product is beyond MaxFloat
MulMagnitude(p, q) ==
    LET ph == p \div SCALE
        pl == p % SCALE
    IN  IF ph > 0 /\ q > MaxFloat \div ph THEN Inf
        ELSE Overflow(ph * q + pl * (q \div SCALE) + (pl * (q % SCALE)) \div SCALE)

\* floor(p * SCALE / q) for p >= 0, q > 0, computed without leaving 32 bits; the
\* last digits are approximate when q is beyond 2000000
DivMagnitude(p, q) ==
    IF p \div q > MaxFloat \div SCALE THEN Inf
    ELSE IF q <= 2000000 THEN Overflow((p \div q) * SCALE + ((p % q) * SCALE) \div q)
    ELSE Overflow((p \div q) * SCALE + (p % q) \div (q \div SCALE))

FNeg(a) == IF IsNaN(a) THEN NaN ELSE -a

FAdd(a, b) ==
    IF IsNaN(a) \/ IsNaN(b) THEN NaN
    ELSE IF IsInf(a) THEN (IF b = -a THEN NaN ELSE a)
    ELSE IF IsInf(b) THEN b
    ELSE Overflow(a + b)

FSub(a, b) == FAdd(a, FNeg(b))

FMul(a, b) ==
    IF IsNaN(a) \/ IsNaN(b) THEN NaN
    ELSE IF a = 0 \/ b = 0 THEN (IF IsInf(a) \/ IsInf(b) THEN NaN ELSE 0)
    ELSE IF IsInf(a) \/ IsInf(b) THEN (IF (a > 0) = (b > 0) THEN Inf ELSE -Inf)
    ELSE IF Abs(a) <= 46340 /\ Abs(b) <= 46340 THEN Mul(a, b)
    ELSE IF (a > 0) = (b > 0) THEN MulMagnitude(Abs(a), Abs(b))
    ELSE FNeg(MulMagnitude(Abs(a), Abs(b)))

FDiv(a, b) ==
    IF IsNaN(a) \/ IsNaN(b) THEN NaN
    ELSE IF IsInf(a) THEN (IF IsInf(b) THEN NaN
                           ELSE IF (a > 0) = (b >= 0) THEN Inf ELSE -Inf)
    ELSE IF IsInf(b) THEN 0
    ELSE IF b = 0 THEN (IF a = 0 THEN NaN ELSE IF a > 0 THEN Inf ELSE -Inf)
    ELSE IF Abs(a) <= 2000000 THEN Overflow(Div(a, b))
    ELSE IF (a > 0) = (b > 0) THEN DivMagnitude(Abs(a), Abs(b))
    ELSE FNeg(DivMagnitude(Abs(a), Abs(b)))

FMax(a, b) == IF IsNaN(a) \/ IsNaN(b) THEN NaN ELSE IF a >= b THEN a ELSE b

RECURSIVE FSumFrom(_, _)
FSumFrom(acc, s) == IF s = << >> THEN acc ELSE FSumFrom(FAdd(acc, Head(s)), Tail(s))

\* np.sum of a vector of floats, added from the first entry on
FSum(s) == FSumFrom(0, s)

\* exp(r) for 0 <= r < SCALE, by its series up to the sixth power
ExpFraction(r) ==
    LET t6 == SCALE + r \div 6
        t5 == SCALE + Mul(r, t6) \div 5
        t4 == SCALE + Mul(r, t5) \div 4
        t3 == SCALE + Mul(r, t4) \div 3
        t2 == SCALE + Mul(r, t3) \div 2
    IN  SCALE + Mul(r, t2)

\* exp(q) for a whole number q >= 0; 2718 is e
RECURSIVE ExpWhole(_)
ExpWhole(q) == IF q = 0 THEN SCALE ELSE FMul(2718, ExpWhole(q - 1))

\* exp(a) for a finite a >= 0 that does not overflow
ExpPositive(a) == FMul(ExpWhole(a \div SCALE), ExpFraction(a % SCALE))

\* the largest a with exp(a) within the float range
MaxExponent == 13815

FExp(a) ==
    IF IsNaN(a) THEN NaN
    ELSE IF a > MaxExponent THEN Inf
    ELSE IF a < -MaxExponent THEN 0
    ELSE IF a >= 0 THEN ExpPositive(a)
    ELSE (SCALE * SCALE) \div ExpPositive(-a)

\* 2 * (t + t^3 / 3 + t^5 / 5 + t^7 / 7), t2 being t * t
ArtanhSeries(t, t2) ==
    2 * Mul(t, SCALE + Mul(t2, 333 + Mul(t2, 200 + Mul(t2, 143))))

\* log(m) for SCALE <= m < 2 * SCALE, by the series of 2 * artanh((m - 1) / (m + 1))
LogMantissa(m) ==
    ArtanhSeries(Div(m - SCALE, m + SCALE),
                 Mul(Div(m - SCALE, m + SCALE), Div(m - SCALE, m + SCALE)))

\* log(y * 2^k) for a finite y > 0; 693 is log(2)
RECURSIVE LogScaled(_, _)
LogScaled(y, k) ==
    IF y >= 2 * SCALE THEN LogScaled(y \div 2, k + 1)
    ELSE IF y < SCALE THEN LogScaled(y * 2, k - 1)
    ELSE k * 693 + LogMantissa(y)

FLog(a) ==
    IF IsNaN(a) \/ a < 0 THEN NaN
    ELSE IF a = 0 THEN -Inf
    ELSE IF a = Inf THEN Inf
    ELSE LogScaled(a, 0)

----------------------------------------------------------------------------
(* The pseudorandom source: every draw is a function of the key alone.     *)

KeyMod == 64

PRNGKey(seed) == seed % KeyMod

random_split(k, n) == [j \in 1..n |-> (k * 31 + j * 17 + 7) % KeyMod]

\* n draws, each one of -1, 0, 1
random_normal(k, n) == [j \in 1..n |-> (((k * 5 + j * 7 + (k \div 4)) % 3) - 1) * SCALE]

----------------------------------------------------------------------------
(* The linear model of stax.Dense(1).                                      *)

\* init_fun(rng, input_shape): W of shape (N_COLUMNS, 1) and b of shape (1,)
init_fun(rng) ==
    LET ks == random_split(rng, 2)
    IN  [W |-> random_normal(ks[1], N_COLUMNS), b |-> random_normal(ks[2], 1)[1]]

\* the statement "by" hands the key k to random.split or to a draw
use(k, by) == [key |-> k, by |-> by]

\* what init_fun(rng, ...) called by the statement "by" uses: rng is split, W is
\* drawn from the first part and b from the second
init_fun_uses(rng, by) ==
    {use(rng, by),
     use(random_split(rng, 2)[1], "Dense: W_init(k1)"),
     use(random_split(rng, 2)[2], "Dense: b_init(k2)")}

\* the uses of the cells before the training: init_fun(key, input_shape=(4,)) and
\* X = random.normal(key, shape=(200, 4))
setup_uses(k) ==
    init_fun_uses(k, "init_fun(key, input_shape=(4,))")
        \cup {use(k, "X = random.normal(key, shape=(200, 4))")}

\* the uses of a cell "initialization_keys = random.split(key, N_INITIALIZATIONS)"
\* followed by vmap of the training start, which draws its parameters with
\* init_fun from the key it is given
vmap_uses(k, by) ==
    {use(k, by)} \cup
    UNION {init_fun_uses(random_split(k, N_INITIALIZATIONS)[r],
                         "train_linear: init_fun(key)") : r \in 1..N_INITIALIZATIONS}

\* apply_fun(params, inputs) = np.dot(inputs, W) + b
apply_fun(params, x) ==
    Sum([c \in 1..Len(x) |-> Mul(x[c], params.W[c])]) + params.b

true_b == 5

\* y_true = np.dot(X, np.array([1, 2, 3, 4])) + 5
make_y_true(xs) ==
    [s \in 1..Len(xs) |-> Sum([c \in 1..Len(xs[s]) |-> c * xs[s][c]]) + true_b * SCALE]

\* X = random.normal(key, shape=(200, 4)), row by row
make_X(k) ==
    LET flat == random_normal(k, N_SAMPLES * N_COLUMNS)
    IN  [s \in 1..N_SAMPLES |-> [c \in 1..N_COLUMNS |-> flat[(s - 1) * N_COLUMNS + c]]]

\* mseloss(params, model, x, y_true) = np.mean(np.power(y_preds - y_true, 2))
mseloss(params, x, y) ==
    LET err == [s \in 1..Len(x) |-> apply_fun(params, x[s]) - y[s]]
    IN  Sum([s \in 1..Len(x) |-> Mul(err[s], err[s])]) \div Len(x)

\* dmseloss = grad(mseloss): the derivative with respect to params
dmseloss(params, x, y) ==
    LET err == [s \in 1..Len(x) |-> apply_fun(params, x[s]) - y[s]]
    IN  [W |-> [c \in 1..Len(params.W) |->
                  Sum([s \in 1..Len(x) |-> Mul(2 * err[s], x[s][c])]) \div Len(x)],
         b |-> Sum([s \in 1..Len(x) |-> 2 * err[s]]) \div Len(x)]

----------------------------------------------------------------------------
(* The optimizer: init, update, get_params = adam(step_size=1e-1).         *)

step_size == 100   \* 1e-1
b1 == 900          \* 0.9
b2 == 999          \* 0.999
eps == 1           \* the smallest positive fixed-point value stands for 1e-8

zeros_like(params) == [W |-> [c \in 1..Len(params.W) |-> 0], b |-> 0]

\* a bug: the first moment starts as a copy of the parameters, not as zeros
init_moments_from_params(x0) == [x |-> x0, m |-> x0, v |-> zeros_like(x0)]

\* init(x0) = (x0, zeros_like(x0), zeros_like(x0))
init(x0) == [x |-> x0, m |-> zeros_like(x0), v |-> zeros_like(x0)]

get_params(state) == state.x

\* one leaf of update(i, g, state)
update_leaf(i, g, x, m, v) ==
    LET m1   == Mul(SCALE - b1, g) + Mul(b1, m)
        v1   == ((SCALE - b2) * ((g * g) \div SCALE)) + (v - (v \div SCALE) * (SCALE - b2))
        mhat == Div(m1, SCALE - Pow(b1, i + 1))
        vhat == (v1 \div (SCALE - Pow(b2, i + 1))) * SCALE
        x1   == x - Div(Mul(step_size, mhat), Sqrt(vhat) + eps)
    IN  [x |-> x1, m |-> m1, v |-> v1]

update(i, g, state) ==
    LET leafW == [c \in 1..Len(state.x.W) |->
                    update_leaf(i, g.W[c], state.x.W[c], state.m.W[c], state.v.W[c])]
        leafb == update_leaf(i, g.b, state.x.b, state.m.b, state.v.b)
    IN  [x |-> [W |-> [c \in 1..Len(leafW) |-> leafW[c].x], b |-> leafb.x],
         m |-> [W |-> [c \in 1..Len(leafW) |-> leafW[c].m], b |-> leafb.m],
         v |-> [W |-> [c \in 1..Len(leafW) |-> leafW[c].v], b |-> leafb.v]]
----------------------------------------------------------------------------
(* The training step and its scannable form.                               *)

\* step(i, state, get_params, dlossfunc, update, model, x, y_true), with all but
\* i and state bound by functools.partial (step_partial, step_partial_jit)
step(i, state) ==
    LET params == get_params(state)
        g      == dmseloss(params, X, y_true)
    IN  update(i, g, state)

\* a bug: the state stacked into the history is the one the step started from
scannable_step_emits_previous(previous_state, iteration) ==
    LET new_state == step(iteration, previous_state)
    IN  [carry |-> new_state, y |-> previous_state]

\* scannable_step = make_scannable_step(step_partial_jit): the new carry and the
\* output stacked into the history
scannable_step(previous_state, iteration) ==
    LET new_state == step(iteration, previous_state)
    IN  [carry |-> new_state, y |-> new_state]

\* a bug: the indices start at 1, as np.arange(1, n + 1) would give
arange_from_one(n) == [j \in 1..n |-> j]

\* np.arange(n)
arange(n) == [j \in 1..n |-> j - 1]

\* the loop of lax.scan: c is the carry, xs the indices left, out the outputs so far
RECURSIVE scan_loop(_, _, _)
scan_loop(c, xs, out) ==
    IF xs = << >> THEN [final |-> c, history |-> out]
    ELSE LET r == scannable_step(c, Head(xs))
         IN  scan_loop(r.carry, Tail(xs), Append(out, r.y))

\* lax.scan(scannable_step, init, xs) as a function: (final carry, stacked outputs)
lax_scan(c, xs) == scan_loop(c, xs, << >>)

----------------------------------------------------------------------------
(* The likelihood functions of the Gaussian mixture.  Mixture parameters   *)
(* are the triple << log_component_weights, component_mus,                 *)
(* log_component_scales >> of equally long vectors.  A value that is used  *)
(* more than once is handed on as an argument, so that it is computed once. *)

\* np.array(f): the vector f with every entry computed
array(f) == f \o << >>

RECURSIVE FMaxFrom(_, _)
FMaxFrom(acc, s) == IF s = << >> THEN acc ELSE FMaxFrom(FMax(acc, Head(s)), Tail(s))

\* the maximum of a vector, replaced by 0 when it is not finite
finite_or_zero(amax) == IF IsFinite(amax) THEN amax ELSE 0

\* log(sum(exp(xs - shift)))
log_sum_exp_less(xs, shift) ==
    FLog(FSum([j \in 1..Len(xs) |-> FExp(FSub(xs[j], shift))]))

logsumexp_around(xs, shift) == FAdd(log_sum_exp_less(xs, shift), shift)

\* a bug: the maximum subtracted before exponentiating is not added back
logsumexp_shift_dropped(xs) == log_sum_exp_less(xs, finite_or_zero(FMaxFrom(-Inf, xs)))

\* the stable log-sum-exp: the maximum is subtracted before exponentiating and
\* added back to the logarithm
logsumexp(xs) == logsumexp_around(xs, finite_or_zero(FMaxFrom(-Inf, xs)))

\* the log-density of the normal distribution at the distance d from its mean
normal_log_density(d, scale_sqrd) ==
    FDiv(FNeg(FAdd(FLog(FMul(6283, scale_sqrd)), FDiv(FMul(d, d), scale_sqrd))), 2 * SCALE)

\* stats.norm.logpdf(x, loc, scale); 6283 is 2 * pi
norm_logpdf(x, loc, scale) == normal_log_density(FSub(x, loc), FMul(scale, scale))

\* a bug: the weight itself is added, not its logarithm
loglike_one_component_raw_weight(component_weight, component_mu, log_component_scale, datum) ==
    FAdd(component_weight, norm_logpdf(datum, component_mu, FExp(log_component_scale)))

\* component_log_likelihood: log(weight) + logpdf_normal(datum; mean, exp(log_scale))
loglike_one_component(component_weight, component_mu, log_component_scale, datum) ==
    FAdd(FLog(component_weight), norm_logpdf(datum, component_mu, FExp(log_component_scale)))

\* exp(xs - total), entry by entry
exp_less(xs, total) == array([j \in 1..Len(xs) |-> FExp(FSub(xs[j], total))])

\* a bug: the log-sum-exp is taken of the log weights cut off at 0, so that the
\* probabilities sum to 1 only when no log weight is positive
normalize_weights_clipped(log_component_weights) ==
    exp_less(log_component_weights,
             logsumexp([j \in 1..Len(log_component_weights) |->
                           IF log_component_weights[j] > 0 THEN 0
                           ELSE log_component_weights[j]]))

\* the probabilities of the log weights: their log-sum-exp is subtracted from each
\* and the difference exponentiated
normalize_weights(log_component_weights) ==
    exp_less(log_component_weights, logsumexp(log_component_weights))

\* loglike_one_component of every component at one datum
loglike_components(component_weights, component_mus, log_component_scales, datum) ==
    array([j \in 1..Len(component_mus) |->
              loglike_one_component(component_weights[j], component_mus[j],
                                    log_component_scales[j], datum)])

\* mixture_component_log_likelihood: the log-likelihood of one datum under the mixture
loglike_across_components(log_component_weights, component_mus, log_component_scales, datum) ==
    logsumexp(loglike_components(normalize_weights(log_component_weights), component_mus,
                                 log_component_scales, datum))

\* a bug: the sum is weighted by the position of the datum
mixture_loglike_by_position(log_component_weights, component_mus, log_component_scales, data) ==
    FSum([i \in 1..Len(data) |->
            FMul(i * SCALE, loglike_across_components(log_component_weights, component_mus,
                                                      log_component_scales, data[i]))])

\* total_log_likelihood: the sum over the data of the log-likelihood of each datum
mixture_loglike(log_component_weights, component_mus, log_component_scales, data) ==
    FSum([i \in 1..Len(data) |->
            loglike_across_components(log_component_weights, component_mus,
                                      log_component_scales, data[i])])

RECURSIVE Factorial(_)
Factorial(n) == IF n <= 1 THEN 1 ELSE n * Factorial(n - 1)

\* gammaln at a whole number a: log((a - 1)!), and infinite at the poles a <= 0
gammaln(a) == IF a <= 0 THEN Inf ELSE LogScaled(Factorial(a \div SCALE - 1) * SCALE, 0)

\* xlogy(a, x) = a * log(x), and 0 where a = 0
xlogy(a, x) == IF a = 0 THEN 0 ELSE FMul(a, FLog(x))

\* whether x is a point of the open simplex: its entries are positive and sum to 1
\* within the tolerance of the test, 5 units here
is_simplex(x, x_sum) ==
    /\ \A j \in 1..Len(x) : ~IsNaN(x[j]) /\ x[j] > 0
    /\ IsFinite(x_sum) /\ Abs(x_sum - SCALE) <= 5

\* stats.dirichlet.logpdf(x, alpha), -inf outside the open simplex
dirichlet_logpdf(x, alpha) ==
    IF is_simplex(x, FSum(x))
    THEN FSub(FSum([j \in 1..Len(x) |-> xlogy(alpha[j] - SCALE, x[j])]),
              FSub(FSum([j \in 1..Len(alpha) |-> gammaln(alpha[j])]), gammaln(FSum(alpha))))
    ELSE -Inf

\* weights_log_prior: the Dirichlet log-density of the normalized weights
weights_loglike(log_component_weights, alpha_prior) ==
    dirichlet_logpdf(normalize_weights(log_component_weights), alpha_prior)

\* negative_log_posterior(parameters, data, alpha_prior)
negative_log_posterior(params, data, alpha_prior) ==
    FNeg(FAdd(mixture_loglike(params[1], params[2], params[3], data),
              weights_loglike(params[1], alpha_prior)))

\* the concentration the loss function carries: 2 for every component
hard_coded_alpha_prior(params) == [j \in 1..Len(params[1]) |-> 2 * SCALE]

\* loss_mixture_weights(params, data)
loss_mixture_weights(params, data) ==
    negative_log_posterior(params, data, hard_coded_alpha_prior(params))

----------------------------------------------------------------------------
(* The gradient of the mixture loss and the adam optimizer of the mixture  *)
(* notebook, on floats.                                                    *)

\* the share of each component in the likelihood of one datum
responsibilities(params, datum) ==
    normalize_weights(loglike_components(normalize_weights(params[1]), params[2],
                                         params[3], datum))

\* the derivative of the loss in the log weight, the mean and the log scale of one
\* component: weight, mu and scale_sqrd are its weight, mean and variance, d_prior
\* the derivative of the log prior in its log weight, and resp its share in the
\* likelihood of every datum
dloss_component(weight, mu, scale_sqrd, d_prior, resp, data) ==
    << FNeg(FAdd(FSum([i \in 1..Len(data) |-> FSub(resp[i], weight)]), d_prior)),
       FNeg(FSum([i \in 1..Len(data) |->
                     FMul(resp[i], FDiv(FSub(data[i], mu), scale_sqrd))])),
       FNeg(FSum([i \in 1..Len(data) |->
                     FMul(resp[i], FSub(FDiv(FMul(FSub(data[i], mu), FSub(data[i], mu)),
                                             scale_sqrd),
                                        SCALE))])) >>

\* dloss_component of every component
dloss_components(params, data, alpha_prior, weights, resp) ==
    array([j \in 1..Len(params[1]) |->
              dloss_component(weights[j], params[2][j],
                              FMul(FExp(params[3][j]), FExp(params[3][j])),
                              FSub(alpha_prior[j] - SCALE,
                                   FMul(weights[j],
                                        FSum([k \in 1..Len(alpha_prior) |->
                                                 alpha_prior[k] - SCALE]))),
                              array([i \in 1..Len(data) |-> resp[i][j]]),
                              data)])

\* the derivatives as one vector per parameter vector
by_parameter(params, parts) ==
    array([k \in 1..3 |-> array([j \in 1..Len(params[k]) |-> parts[j][k]])])

\* dloss_mixture_weights = grad(loss_mixture_weights)
dloss_mixture_weights(params, data) ==
    by_parameter(params,
        dloss_components(params, data, hard_coded_alpha_prior(params),
                         normalize_weights(params[1]),
                         array([i \in 1..Len(data) |-> responsibilities(params, data[i])])))

mixture_step_size == 500   \* adam(0.5)

\* a bug: every accumulator vector is as long as the tuple of the parameters,
\* Len(x0) for Len(x0[k])
adam_init_tuple_length(x0) ==
    [x |-> x0,
     m |-> [k \in 1..Len(x0) |-> [j \in 1..Len(x0) |-> 0]],
     v |-> [k \in 1..Len(x0) |-> [j \in 1..Len(x0) |-> 0]]]

adam_init(x0) ==
    [x |-> x0,
     m |-> [k \in 1..Len(x0) |-> [j \in 1..Len(x0[k]) |-> 0]],
     v |-> [k \in 1..Len(x0) |-> [j \in 1..Len(x0[k]) |-> 0]]]

adam_get_params(state) == state.x

\* sqrt(v / c), v at the resolution SCALE * SCALE and c = 1 - b2^(i+1); 31623 is
\* sqrt(SCALE) at the resolution SCALE
sqrt_vhat(v, c) ==
    IF IsNaN(v) \/ v < 0 THEN NaN
    ELSE IF v = Inf THEN Inf
    ELSE IF v \div c <= 2000000 THEN Sqrt((v \div c) * SCALE)
    ELSE (Sqrt(v \div c) * 31623) \div SCALE

\* the leaf with the new moments m1 and v1: x - step_size * mhat / (sqrt(vhat) + eps)
adam_leaf_moved(i, x, m1, v1) ==
    [x |-> FSub(x, FDiv(FMul(mixture_step_size, FDiv(m1, SCALE - Pow(b1, i + 1))),
                        FAdd(sqrt_vhat(v1, SCALE - Pow(b2, i + 1)), eps))),
     m |-> m1,
     v |-> v1]

\* one leaf of adam_update(i, g, state)
adam_update_leaf(i, g, x, m, v) ==
    adam_leaf_moved(i, x,
                    FAdd(FMul(SCALE - b1, g), FMul(b1, m)),
                    FAdd(FMul((SCALE - b2) * SCALE, FMul(g, g)), FSub(v, FMul(SCALE - b2, v))))

\* the state made of the leaves
state_of_leaves(leaf) ==
    [x |-> array([k \in 1..Len(leaf) |-> array([j \in 1..Len(leaf[k]) |-> leaf[k][j].x])]),
     m |-> array([k \in 1..Len(leaf) |-> array([j \in 1..Len(leaf[k]) |-> leaf[k][j].m])]),
     v |-> array([k \in 1..Len(leaf) |-> array([j \in 1..Len(leaf[k]) |-> leaf[k][j].v])])]

adam_update(i, g, state) ==
    state_of_leaves(array([k \in 1..Len(g) |-> array([j \in 1..Len(g[k]) |->
        adam_update_leaf(i, g[k][j], state.x[k][j], state.m[k][j], state.v[k][j])])]))

\* step(i, state, get_params_func, dloss_func, update_func, data) of the mixture
mixture_step(i, state, data) ==
    adam_update(i, dloss_mixture_weights(adam_get_params(state), data), state)

\* the pair a scannable function returns: the new carry and the stacked output
carry_and_output(new_state) == [carry |-> new_state, y |-> new_state]

\* step_scannable = make_step_scannable(...)
step_scannable(previous_state, iteration, data) ==
    carry_and_output(mixture_step(iteration, previous_state, data))

RECURSIVE mixture_scan_loop_until_nonfinite(_, _, _, _)
RECURSIVE mixture_scan_next_until_nonfinite(_, _, _, _)
mixture_scan_next_until_nonfinite(r, xs, out, data) ==
    mixture_scan_loop_until_nonfinite(r.carry, xs, Append(out, r.y), data)

\* a bug: the fold stops at the first state that holds a non-finite parameter
mixture_scan_loop_until_nonfinite(c, xs, out, data) ==
    IF c.x = << >> \/ xs = << >>
       \/ (out # << >> /\ \E k \in 1..3 : \E j \in 1..Len(c.x[k]) : ~IsFinite(c.x[k][j]))
    THEN [final |-> c, history |-> out]
    ELSE mixture_scan_next_until_nonfinite(step_scannable(c, Head(xs), data), Tail(xs),
                                           out, data)

RECURSIVE mixture_scan_loop(_, _, _, _)
RECURSIVE mixture_scan_next(_, _, _, _)
\* the loop goes on with the carry of r, and the output of r is stacked
mixture_scan_next(r, xs, out, data) ==
    mixture_scan_loop(r.carry, xs, Append(out, r.y), data)

\* the loop of lax.scan over step_scannable: c is the carry, computed before the
\* step that takes it starts, xs the indices left, out the outputs so far
mixture_scan_loop(c, xs, out, data) ==
    IF c.x = << >> \/ xs = << >> THEN [final |-> c, history |-> out]
    ELSE mixture_scan_next(step_scannable(c, Head(xs), data), Tail(xs), out, data)

\* run: lax.scan(step_scannable, initial_state, np.arange(n)) with the data bound
mixture_run(s0, data, n) == mixture_scan_loop(s0, arange(n), << >>, data)

\* get_loss(state, get_params_func, loss_func, data)
get_loss(state, data) == loss_mixture_weights(adam_get_params(state), data)

----------------------------------------------------------------------------
(* The data and the initial parameters of the mixture notebook.            *)

N_MIXTURE_COMPONENTS == 2

weights_true == << 1, 5 >>
locs_true    == << -2 * SCALE, 5 * SCALE >>
scale_true   == << 1100, 2 * SCALE >>

\* draws_1, draws_2 and their concatenation data_mixture
generate_data(k) ==
    LET ks == random_split(k, 2)
        draws == [c \in 1..2 |->
                     array([j \in 1..(base_n_draws * weights_true[c]) |->
                         FAdd(FMul(scale_true[c],
                                   random_normal(ks[c], base_n_draws * weights_true[c])[j]),
                              locs_true[c])])]
    IN  draws[1] \o draws[2]

\* the uses of the cell of data_mixture: key is split in two, draws_1 and draws_2
\* are drawn from the parts
generate_data_uses(k) ==
    {use(k, "k1, k2 = random.split(key)"),
     use(random_split(k, 2)[1], "draws_1 = ... random.normal(k1, ...)"),
     use(random_split(k, 2)[2], "draws_2 = ... random.normal(k2, ...)")}

\* the uses of the cell of params_init: key is split in four, three parts are drawn
\* from
draw_params_uses(k) ==
    {use(k, "k1, k2, k3, k4 = random.split(key, 4)"),
     use(random_split(k, 4)[1], "log_component_weights_init = random.normal(k1, ...)"),
     use(random_split(k, 4)[2], "component_mus_init = random.normal(k2, ...)"),
     use(random_split(k, 4)[3], "log_component_scales_init = random.normal(k3, ...)")}

\* the three vectors of the parameter initialization, of the given lengths
draw_params(k, n_weights, n_mus, n_scales) ==
    LET ks == random_split(k, 4)
    IN  << random_normal(ks[1], n_weights), random_normal(ks[2], n_mus),
           random_normal(ks[3], n_scales) >>

----------------------------------------------------------------------------
(* The notebook as a state machine.                                        *)

NoParams == [W |-> << >>, b |-> 0]
NoCall   == [op |-> "none"]
NoState  == [x |-> NoParams, m |-> NoParams, v |-> NoParams]

\* gaussian_random_walk_python is defined and not called
walk_not_called ==
    /\ num_realizations = 0 /\ num_timesteps = 0 /\ generator = 0
    /\ walk_i = 0 /\ walk_t = 0 /\ rws = << >> /\ rw = << >> /\ prev_draw = 0
    /\ draw_calls = << >> /\ trajectories_python = << >>

Init ==
    \E seed \in 0..MaxSeed, n \in 0..MaxIter :
        /\ key = PRNGKey(seed)
        /\ X = make_X(PRNGKey(seed))
        /\ y_true = make_y_true(make_X(PRNGKey(seed)))
        /\ params_initial = init_fun(PRNGKey(seed))
        /\ key_uses = setup_uses(PRNGKey(seed))
        /\ walk_not_called
        /\ num_iterations = n
        /\ pc = "loop_cell"
        /\ loop_i = 0
        /\ loop_state = NoState
        /\ loop_params = NoParams
        /\ loop_g = NoParams
        /\ loop_calls = << >>
        /\ data_mixture = << >> /\ params_init = << >> /\ grads = << >>
        /\ params_opt = << >> /\ loss_log = << >> /\ init_log = << >>
        /\ part_i = 0 /\ part_state = NoState /\ part_history = << >>
        /\ jit_cache = << >> /\ jit_i = 0 /\ jit_state = NoState /\ jit_history = << >>
        /\ jit_final_states = << >> /\ jit_states_histories = << >>
        /\ initial_state = NoState
        /\ carry = NoState
        /\ idx = 0
        /\ ys = << >>
        /\ calls = << >>
        /\ final_state = NoState
        /\ states_history = << >>
        /\ executions = << >>
        /\ runs = << >>
        /\ final_states = << >>
        /\ states_histories = << >>
        /\ call = NoCall

(* The explicit loop:                                                      *)
(*     state = init(params_initial)                                        *)
(*     for i in range(1000):                                               *)
(*         params = get_params(state)                                      *)
(*         g = dmseloss(params, apply_fun, X, y_true)                      *)
(*         state = update(i, g, state)                                     *)

\* state = init(params_initial)
LoopInit ==
    /\ pc = "loop_cell"
    /\ loop_state' = init(params_initial)
    /\ loop_calls' = << >>
    /\ pc' = "loop_first"
    /\ UNCHANGED << others, inputs, loop_i, loop_params, loop_g, scanvars, scanout, vmapvars >>

\* for i in range(...): the first index, if there is one
LoopFirst ==
    /\ pc = "loop_first"
    /\ IF num_iterations > 0
       THEN loop_i' = arange(num_iterations)[1] /\ pc' = "loop_get_params"
       ELSE loop_i' = loop_i /\ pc' = "scan_cell"
    /\ UNCHANGED << others, inputs, loop_state, loop_params, loop_g, loop_calls, scanvars,
                    scanout, vmapvars >>

\* params = get_params(state)
LoopGetParams ==
    /\ pc = "loop_get_params"
    /\ loop_params' = get_params(loop_state)
    /\ pc' = "loop_grad"
    /\ UNCHANGED << others, inputs, loop_i, loop_state, loop_g, loop_calls, scanvars, scanout,
                    vmapvars >>

\* a bug: the gradient is evaluated at the parameters the training started from
LoopGrad_at_initial ==
    /\ pc = "loop_grad"
    /\ loop_g' = dmseloss(params_initial, X, y_true)
    /\ pc' = "loop_update"
    /\ UNCHANGED << others, inputs, loop_i, loop_state, loop_params, loop_calls, scanvars,
                    scanout, vmapvars >>

\* g = dmseloss(params, apply_fun, X, y_true)
LoopGrad ==
    /\ pc = "loop_grad"
    /\ loop_g' = dmseloss(loop_params, X, y_true)
    /\ pc' = "loop_update"
    /\ UNCHANGED << others, inputs, loop_i, loop_state, loop_params, loop_calls, scanvars,
                    scanout, vmapvars >>

\* a bug: the parameters are replaced and the moment accumulators are left behind
LoopUpdate_torn ==
    /\ pc = "loop_update"
    /\ loop_state' = [loop_state EXCEPT !.x = update(loop_i, loop_g, loop_state).x]
    /\ loop_calls' = Append(loop_calls, [i |-> loop_i, state |-> loop_state])
    /\ pc' = "loop_next"
    /\ UNCHANGED << others, inputs, loop_i, loop_params, loop_g, scanvars, scanout, vmapvars >>

\* state = update(i, g, state)
LoopUpdate ==
    /\ pc = "loop_update"
    /\ loop_state' = update(loop_i, loop_g, loop_state)
    /\ loop_calls' = Append(loop_calls, [i |-> loop_i, state |-> loop_state])
    /\ pc' = "loop_next"
    /\ UNCHANGED << others, inputs, loop_i, loop_params, loop_g, scanvars, scanout, vmapvars >>

\* for i in range(...): the next index, or the end of the loop
LoopNext ==
    /\ pc = "loop_next"
    /\ IF Len(loop_calls) < num_iterations
       THEN loop_i' = arange(num_iterations)[Len(loop_calls) + 1]
            /\ pc' = "loop_get_params"
       ELSE loop_i' = loop_i /\ pc' = "scan_cell"
    /\ UNCHANGED << others, inputs, loop_state, loop_params, loop_g, loop_calls, scanvars,
                    scanout, vmapvars >>

(* The lax.scan loop:                                                      *)
(*     initial_state = init(params_initial)                                *)
(*     final_state, states_history =                                       *)
(*         lax.scan(scannable_step, initial_state, np.arange(1000))        *)

\* a bug: the history starts with initial_state as an entry of its own
ScanInit_keeps_initial ==
    /\ pc = "scan_cell"
    /\ initial_state' = init(params_initial)
    /\ carry' = init(params_initial)
    /\ idx' = 0
    /\ ys' = << init(params_initial) >>
    /\ calls' = << >>
    /\ pc' = "scan"
    /\ UNCHANGED << others, inputs, loopvars, scanout, vmapvars >>

\* a bug: a second execution goes on from the state the first one ended in
ScanInit_stale ==
    /\ pc = "scan_cell"
    /\ initial_state' = init(params_initial)
    /\ carry' = IF executions = << >> THEN init(params_initial) ELSE carry
    /\ idx' = 0
    /\ ys' = << >>
    /\ calls' = << >>
    /\ pc' = "scan"
    /\ UNCHANGED << others, inputs, loopvars, scanout, vmapvars >>

\* initial_state = init(params_initial); lax.scan starts with it as the carry
ScanInit ==
    /\ pc = "scan_cell"
    /\ initial_state' = init(params_initial)
    /\ carry' = init(params_initial)
    /\ idx' = 0
    /\ ys' = << >>
    /\ calls' = << >>
    /\ pc' = "scan"
    /\ UNCHANGED << others, inputs, loopvars, scanout, vmapvars >>

\* a bug: every step starts from initial_state, the carry is not threaded
ScanStep_from_initial ==
    /\ pc = "scan"
    /\ idx < num_iterations
    /\ LET x == arange(num_iterations)[idx + 1]
           r == scannable_step(initial_state, x)
       IN  /\ carry' = r.carry
           /\ ys' = Append(ys, r.y)
           /\ calls' = Append(calls, [i |-> x, state |-> initial_state])
    /\ idx' = idx + 1
    /\ UNCHANGED << others, inputs, pc, loopvars, initial_state, scanout, vmapvars >>

\* a bug: the state is updated in place, so every stacked entry is the one buffer
ScanStep_in_place ==
    /\ pc = "scan"
    /\ idx < num_iterations
    /\ LET x == arange(num_iterations)[idx + 1]
           r == scannable_step(carry, x)
       IN  /\ carry' = r.carry
           /\ ys' = [k \in 1..(Len(ys) + 1) |-> r.y]
           /\ calls' = Append(calls, [i |-> x, state |-> carry])
    /\ idx' = idx + 1
    /\ UNCHANGED << others, inputs, pc, loopvars, initial_state, scanout, vmapvars >>

\* lax.scan consumes the next index of np.arange(num_iterations)
ScanStep ==
    /\ pc = "scan"
    /\ idx < num_iterations
    /\ LET x == arange(num_iterations)[idx + 1]
           r == scannable_step(carry, x)
       IN  /\ carry' = r.carry
           /\ ys' = Append(ys, r.y)
           /\ calls' = Append(calls, [i |-> x, state |-> carry])
    /\ idx' = idx + 1
    /\ UNCHANGED << others, inputs, pc, loopvars, initial_state, scanout, vmapvars >>

\* final_state, states_history = lax.scan(...)
ScanDone ==
    /\ pc = "scan"
    /\ idx = num_iterations
    /\ final_state' = carry
    /\ states_history' = ys
    /\ executions' = Append(executions, [final |-> carry, history |-> ys])
    /\ pc' = "scan_done"
    /\ UNCHANGED << others, inputs, loopvars, scanvars, vmapvars >>

\* the scan cell is executed again
Rerun ==
    /\ pc = "scan_done"
    /\ Len(executions) < MaxExecutions
    /\ pc' = "scan_cell"
    /\ UNCHANGED << others, inputs, loopvars, scanvars, scanout, vmapvars >>

(* The vmap-ed training loop:                                              *)
(*     initialization_keys = random.split(key, N_INITIALIZATIONS)          *)
(*     final_states, states_histories =                                    *)
(*         vmap(train_linear)(initialization_keys)                         *)

\* one training start of the batch, before its first step
new_run(k) == [key |-> k, initial |-> init(init_fun(k)), carry |-> init(init_fun(k)),
               idx |-> 0, ys |-> << >>]

\* initialization_keys = random.split(key, N_INITIALIZATIONS); vmap(train_linear)
VmapStart ==
    /\ pc = "scan_done"
    /\ LET initialization_keys == random_split(key, N_INITIALIZATIONS)
       IN  runs' = [r \in 1..N_INITIALIZATIONS |-> new_run(initialization_keys[r])]
    /\ final_states' = << >>
    /\ states_histories' = << >>
    /\ key_uses' = key_uses \cup
           vmap_uses(key, "initialization_keys = random.split(key, N_INITIALIZATIONS)")
    /\ pc' = "vmap"
    /\ UNCHANGED << others, key, X, y_true, params_initial, num_iterations, loopvars,
                    scanvars, scanout >>

\* what one scan step makes of one training start
advance(run) ==
    LET r == scannable_step(run.carry, arange(num_iterations)[run.idx + 1])
    IN  [run EXCEPT !.carry = r.carry, !.idx = run.idx + 1, !.ys = Append(run.ys, r.y)]

\* a bug: the training starts share one carry, the one of the first of them
VmapStep_shared(r) ==
    /\ pc = "vmap"
    /\ runs[r].idx < num_iterations
    /\ runs' = [runs EXCEPT ![r] = advance([runs[r] EXCEPT !.carry = runs[1].carry])]
    /\ UNCHANGED << others, inputs, pc, loopvars, scanvars, scanout, final_states,
                    states_histories >>

\* the scan of training start r takes its next step
VmapStep(r) ==
    /\ pc = "vmap"
    /\ runs[r].idx < num_iterations
    /\ runs' = [runs EXCEPT ![r] = advance(runs[r])]
    /\ UNCHANGED << others, inputs, pc, loopvars, scanvars, scanout, final_states,
                    states_histories >>

\* a bug: the results come back in the reverse of the order of the keys
VmapDone_reversed ==
    /\ pc = "vmap"
    /\ \A r \in 1..Len(runs) : runs[r].idx = num_iterations
    /\ final_states' = [r \in 1..Len(runs) |-> runs[Len(runs) + 1 - r].carry]
    /\ states_histories' = [r \in 1..Len(runs) |-> runs[Len(runs) + 1 - r].ys]
    /\ pc' = "done"
    /\ UNCHANGED << others, inputs, loopvars, scanvars, scanout, runs >>

\* final_states, states_histories = vmap(train_linear)(initialization_keys)
VmapDone ==
    /\ pc = "vmap"
    /\ \A r \in 1..Len(runs) : runs[r].idx = num_iterations
    /\ final_states' = [r \in 1..Len(runs) |-> runs[r].carry]
    /\ states_histories' = [r \in 1..Len(runs) |-> runs[r].ys]
    /\ pc' = "done"
    /\ UNCHANGED << others, inputs, loopvars, scanvars, scanout, runs >>

Next ==
    \/ LoopInit
    \/ LoopFirst
    \/ LoopGetParams
    \/ LoopGrad
    \/ LoopUpdate
    \/ LoopNext
    \/ ScanInit
    \/ ScanStep
    \/ ScanDone
    \/ Rerun
    \/ VmapStart
    \/ \E r \in 1..Len(runs) : VmapStep(r)
    \/ VmapDone

Spec == Init /\ [][Next]_vars

----------------------------------------------------------------------------
(* The loops over step_partial and over step_partial_jit = jit(step_partial), *)
(* and vmap over train_linear and over train_linear_jit = jit(train_linear).  *)
(* jit traces its function at the first call with arguments of a signature,   *)
(* keeps the compiled function of the trace, and applies it to every later    *)
(* call with that signature.  The arrays the function closes over or has      *)
(* bound by functools.partial are constants of the compiled function.         *)

\* what jit keys its cache by: the shapes of the arguments (i is a scalar)
signature(i, state) == << Len(state.x.W) >>

\* the trace of step_partial: x=X and y_true=y_true become constants
trace(sig) == [signature |-> sig, x |-> X, y_true |-> y_true]

\* the entries of the cache compiled for the signature
compiled_for(cache, sig) == {e \in 1..Len(cache) : cache[e].signature = sig}

\* the entry the call uses: the one compiled for its signature, or a new trace
entry_for(cache, sig) ==
    IF compiled_for(cache, sig) = {} THEN trace(sig)
    ELSE cache[CHOOSE e \in compiled_for(cache, sig) : TRUE]

\* a bug: the index is a constant of the compiled function, the 0 of the call that
\* was traced
compiled_with_constant_index(entry, i, state) ==
    update(0, dmseloss(get_params(state), entry.x, entry.y_true), state)

\* the compiled function of the trace, applied to i and state
compiled(entry, i, state) ==
    update(i, dmseloss(get_params(state), entry.x, entry.y_true), state)

JitInit ==
    \E seed \in 0..MaxSeed, n \in 0..MaxIter :
        /\ key = PRNGKey(seed)
        /\ X = make_X(PRNGKey(seed))
        /\ y_true = make_y_true(make_X(PRNGKey(seed)))
        /\ params_initial = init_fun(PRNGKey(seed))
        /\ key_uses = setup_uses(PRNGKey(seed))
        /\ walk_not_called
        /\ num_iterations = n
        /\ pc = "loop_cell"
        /\ loop_i = 0 /\ loop_state = NoState /\ loop_params = NoParams
        /\ loop_g = NoParams /\ loop_calls = << >>
        /\ initial_state = NoState /\ carry = NoState /\ idx = 0 /\ ys = << >>
        /\ calls = << >>
        /\ final_state = NoState /\ states_history = << >> /\ executions = << >>
        /\ runs = << >> /\ final_states = << >> /\ states_histories = << >>
        /\ data_mixture = << >> /\ params_init = << >> /\ grads = << >>
        /\ params_opt = << >> /\ loss_log = << >> /\ init_log = << >>
        /\ part_i = 0 /\ part_state = NoState /\ part_history = << >>
        /\ jit_cache = << >> /\ jit_i = 0 /\ jit_state = NoState /\ jit_history = << >>
        /\ jit_final_states = << >> /\ jit_states_histories = << >>
        /\ call = NoCall

\* what the loops and the vmap cells of this section leave alone
notjit == << inputs, loopvars, scanvars, scanout, runs, call, mixvars, walkvars >>

\* the same without the trace of the uses of the keys
nokeys == << key, X, y_true, params_initial, num_iterations, loopvars, scanvars, scanout,
            runs, call, mixvars, walkvars >>

\* state = init(params_initial), before "for i in range(1000)" over step_partial;
\* the cell is executed when the explicit loop and the scan cell have been
PartialLoopInit ==
    /\ pc = "scan_done"
    /\ part_state' = init(params_initial)
    /\ part_i' = 0
    /\ part_history' = << >>
    /\ pc' = "partial_loop"
    /\ UNCHANGED << notjit, jitvars, final_states, states_histories >>

\* a bug: the loop hands step_partial the number of the iteration, counted from 1
PartialLoopStep_from_one ==
    /\ pc = "partial_loop"
    /\ part_i < num_iterations
    /\ part_state' = step(part_i + 1, part_state)
    /\ part_history' = Append(part_history, part_state')
    /\ part_i' = part_i + 1
    /\ UNCHANGED << notjit, pc, jitvars, final_states, states_histories >>

\* state = step_partial(i, state)
PartialLoopStep ==
    /\ pc = "partial_loop"
    /\ part_i < num_iterations
    /\ part_state' = step(part_i, part_state)
    /\ part_history' = Append(part_history, part_state')
    /\ part_i' = part_i + 1
    /\ UNCHANGED << notjit, pc, jitvars, final_states, states_histories >>

\* range(1000) is exhausted
PartialLoopDone ==
    /\ pc = "partial_loop"
    /\ part_i = num_iterations
    /\ pc' = "jit_loop_cell"
    /\ UNCHANGED << notjit, partvars, jitvars, final_states, states_histories >>

\* state = init(params_initial), before "for i in range(1000)" over step_partial_jit
JitLoopInit ==
    /\ pc = "jit_loop_cell"
    /\ jit_state' = init(params_initial)
    /\ jit_i' = 0
    /\ jit_history' = << >>
    /\ pc' = "jit_loop"
    /\ UNCHANGED << notjit, partvars, jit_cache, jit_final_states, jit_states_histories,
                    final_states, states_histories >>

\* state = step_partial_jit(i, state): traced at the first call, applied at every call
JitLoopStep ==
    /\ pc = "jit_loop"
    /\ jit_i < num_iterations
    /\ jit_state' = compiled(entry_for(jit_cache, signature(jit_i, jit_state)),
                             jit_i, jit_state)
    /\ jit_cache' = IF compiled_for(jit_cache, signature(jit_i, jit_state)) = {}
                    THEN Append(jit_cache, trace(signature(jit_i, jit_state)))
                    ELSE jit_cache
    /\ jit_history' = Append(jit_history, jit_state')
    /\ jit_i' = jit_i + 1
    /\ UNCHANGED << notjit, pc, partvars, jit_final_states, jit_states_histories,
                    final_states, states_histories >>

\* range(1000) is exhausted
JitLoopDone ==
    /\ pc = "jit_loop"
    /\ jit_i = num_iterations
    /\ pc' = "vmap_cell"
    /\ UNCHANGED << notjit, partvars, jitvars, final_states, states_histories >>

\* train_linear(key): the parameters drawn from the key, then the scan
train_linear(k) == lax_scan(init(init_fun(k)), arange(num_iterations))

\* the loop of the lax.scan inside the compiled train_linear
RECURSIVE compiled_scan_loop(_, _, _, _)
compiled_scan_next(entry, new_state, xs, out) ==
    compiled_scan_loop(entry, new_state, xs, Append(out, new_state))

compiled_scan_loop(entry, c, xs, out) ==
    IF xs = << >> THEN [final |-> c, history |-> out]
    ELSE compiled_scan_next(entry, compiled(entry, Head(xs), c), Tail(xs), out)

\* train_linear_jit(key): the compiled function of the trace of train_linear
train_linear_jit(entry, k) ==
    compiled_scan_loop(entry, init(init_fun(k)), arange(num_iterations), << >>)

\* the results of the training starts, assigned as the final states and the
\* histories
returned(results) ==
    /\ final_states' = [r \in 1..Len(results) |-> results[r].final]
    /\ states_histories' = [r \in 1..Len(results) |-> results[r].history]

jit_returned(results) ==
    /\ jit_final_states' = [r \in 1..Len(results) |-> results[r].final]
    /\ jit_states_histories' = [r \in 1..Len(results) |-> results[r].history]

\* final_states, states_histories = vmap(train_linear)(initialization_keys)
VmapTrain ==
    /\ pc = "vmap_cell"
    /\ returned(array([r \in 1..N_INITIALIZATIONS |->
                           train_linear(random_split(key, N_INITIALIZATIONS)[r])]))
    /\ key_uses' = key_uses \cup
           vmap_uses(key, "initialization_keys = random.split(key, N_INITIALIZATIONS)")
    /\ pc' = "jit_vmap_cell"
    /\ UNCHANGED << nokeys, partvars, jitvars >>

\* train_linear_jit = jit(train_linear)
\* final_states, states_histories = vmap(train_linear_jit)(initialization_keys)
VmapTrainJit ==
    /\ pc = "jit_vmap_cell"
    /\ jit_returned(array([r \in 1..N_INITIALIZATIONS |->
                               train_linear_jit(trace(<< "key" >>),
                                                random_split(key, N_INITIALIZATIONS)[r])]))
    /\ key_uses' = key_uses \cup
           vmap_uses(key, "initialization_keys = random.split(key, N_INITIALIZATIONS), jit")
    /\ pc' = "jit_done"
    /\ UNCHANGED << nokeys, partvars, jit_cache, jit_i, jit_state, jit_history,
                    final_states, states_histories >>

JitNext ==
    \/ LoopInit
    \/ LoopFirst
    \/ LoopGetParams
    \/ LoopGrad
    \/ LoopUpdate
    \/ LoopNext
    \/ ScanInit
    \/ ScanStep
    \/ ScanDone
    \/ PartialLoopInit
    \/ PartialLoopStep
    \/ PartialLoopDone
    \/ JitLoopInit
    \/ JitLoopStep
    \/ JitLoopDone
    \/ VmapTrain
    \/ VmapTrainJit

JitSpec == JitInit /\ [][JitNext]_vars

----------------------------------------------------------------------------
(* The mixture functions as an interface: a transition is one call, with   *)
(* arguments of every shape, and call records its arguments and its        *)
(* outcome until the caller goes on.  A call that raises returns nothing;  *)
(* one that returns has its results in value.  state_in is the optimizer   *)
(* state the caller holds before the call and state the one it holds after *)
(* "state = step(...)".                                                    *)

Seeds   == 0..MaxSeed
Lengths == 1..N_MIXTURE_COMPONENTS

\* what is added to every drawn log scale: nothing, or enough to make the scale
\* underflow
LogScaleOffsets == {0, -4 * SCALE}

\* concentrations of the prior, of every length and with entries that are not positive
AlphaPriors ==
    UNION {[1..n -> {0, SCALE, 2 * SCALE, 3 * SCALE}] : n \in Lengths}

\* the constant added to the log weights, from the smallest float to the largest
Shifts == {-MaxFloat, -3 * SCALE, -1, 1500, 5 * SCALE, MaxFloat}

\* the log weight of a mixture of one component, from the smallest float to the largest
LogWeights == {-MaxFloat, -20 * SCALE, -SCALE, 0, 700, 20 * SCALE, MaxFloat}

\* the arguments of loglike_one_component, those of the notebook's test among them
ComponentWeights == {1, 167, 500, SCALE}
ComponentMus     == {-2 * SCALE, 0, 5 * SCALE}
ComponentLogScales == {-SCALE, 0, 693}
ComponentData    == {-SCALE, 0, 2500}

engine_params(seed, n_weights, n_mus, n_scales, offset) ==
    LET p == draw_params(PRNGKey(seed), n_weights, n_mus, n_scales)
    IN  << p[1], p[2], [j \in 1..n_scales |-> p[3][j] + offset] >>

NoMixState == [x |-> << >>, m |-> << >>, v |-> << >>]

\* the vectors of the parameters have one length
same_length(params) ==
    Len(params[1]) = Len(params[2]) /\ Len(params[2]) = Len(params[3])

\* the concentration has one entry per component
alpha_fits(log_component_weights, alpha_prior) ==
    Len(alpha_prior) = Len(log_component_weights)

\* the vectors cut to the length of the shortest
truncated(params) ==
    LET n == IF Len(params[1]) <= Len(params[2]) /\ Len(params[1]) <= Len(params[3])
             THEN Len(params[1])
             ELSE IF Len(params[2]) <= Len(params[3]) THEN Len(params[2])
             ELSE Len(params[3])
    IN  [k \in 1..3 |-> SubSeq(params[k], 1, n)]

\* orders of n data: two of them exchanged, all reversed, all moved on by one
Rearrangements(n) ==
    {[k \in 1..n |-> IF k = i THEN j ELSE IF k = j THEN i ELSE k] : i \in 1..n, j \in 1..n}
        \cup {[k \in 1..n |-> n + 1 - k], [k \in 1..n |-> (k % n) + 1]}

\* data[order]: the data in another order
rearranged(data, order) == array([k \in 1..Len(data) |-> data[order[k]]])

\* the record of a call that passed its shape check (results are its return values)
\* or raised
Called(op, params, data, alpha_prior, extra, state_in, shapes_fit, results, state_out) ==
    [op |-> op, params |-> params, data |-> data, alpha_prior |-> alpha_prior,
     extra |-> extra, state_in |-> state_in,
     raised |-> ~shapes_fit,
     value |-> IF shapes_fit THEN results ELSE << >>,
     state |-> IF shapes_fit THEN state_out ELSE state_in]

EngineInit ==
    /\ key_uses = {}
    /\ walk_not_called
    /\ key = 0 /\ X = << >> /\ y_true = << >> /\ params_initial = NoParams
    /\ num_iterations = 0 /\ pc = "calls"
    /\ loop_i = 0 /\ loop_state = NoState /\ loop_params = NoParams /\ loop_g = NoParams
    /\ loop_calls = << >>
    /\ initial_state = NoState /\ carry = NoState /\ idx = 0 /\ ys = << >> /\ calls = << >>
    /\ final_state = NoState /\ states_history = << >> /\ executions = << >>
    /\ runs = << >> /\ final_states = << >> /\ states_histories = << >>
    /\ data_mixture = << >> /\ params_init = << >> /\ grads = << >>
    /\ params_opt = << >> /\ loss_log = << >> /\ init_log = << >>
    /\ part_i = 0 /\ part_state = NoState /\ part_history = << >>
    /\ jit_cache = << >> /\ jit_i = 0 /\ jit_state = NoState /\ jit_history = << >>
    /\ jit_final_states = << >> /\ jit_states_histories = << >>
    /\ call = NoCall

\* the names of the notebooks, which a call of the interface leaves alone
notebookvars == << inputs, pc, loopvars, scanvars, scanout, vmapvars, mixvars, partvars,
                   jitvars, walkvars >>

\* loglike_one_component(weight, mu, log_scale, datum), next to
\* stats.norm.logpdf(x=datum, loc=mu, scale=exp(log_scale))
CallComponent ==
    /\ call = NoCall
    /\ \E weight \in ComponentWeights, mu \in ComponentMus,
          log_scale \in ComponentLogScales, datum \in ComponentData :
         call' = Called("component_log_likelihood", << << >>, << mu >>, << log_scale >> >>,
                        << datum >>, << >>, << weight >>, NoMixState, TRUE,
                        << loglike_one_component(weight, mu, log_scale, datum),
                           norm_logpdf(datum, mu, FExp(log_scale)) >>,
                        NoMixState)
    /\ UNCHANGED notebookvars

\* loglike_across_components for a mixture of one component, next to
\* loglike_one_component with weight 1 on the same component and datum
CallOneComponentMixture ==
    /\ call = NoCall
    /\ \E seed \in Seeds, log_weight \in LogWeights, i \in 1..Len(generate_data(0)) :
         LET drawn  == engine_params(seed, 1, 1, 1, 0)
             params == << << log_weight >>, drawn[2], drawn[3] >>
             data   == generate_data(PRNGKey(seed))
         IN  call' = Called("mixture_component_log_likelihood", params, data, << >>, << i >>,
                            NoMixState, TRUE,
                            << loglike_across_components(params[1], params[2], params[3], data[i]),
                               loglike_one_component(SCALE, params[2][1], params[3][1], data[i]) >>,
                            NoMixState)
    /\ UNCHANGED notebookvars

\* mixture_loglike(log_weights, mus, log_scales, data)
CallLikelihood ==
    /\ call = NoCall
    /\ \E seed \in Seeds, n_weights \in Lengths, n_mus \in Lengths, n_scales \in Lengths,
          offset \in LogScaleOffsets :
         LET params == engine_params(seed, n_weights, n_mus, n_scales, offset)
             data   == generate_data(PRNGKey(seed))
         IN  call' = Called("total_log_likelihood", params, data, << >>, << >>, NoMixState,
                            same_length(params),
                            << mixture_loglike(params[1], params[2], params[3], data) >>,
                            NoMixState)
    /\ UNCHANGED notebookvars

\* mixture_loglike on the data and on the same data in another order
CallLikelihoodPermuted ==
    /\ call = NoCall
    /\ \E seed \in Seeds, n \in Lengths, order \in Rearrangements(Len(generate_data(0))) :
         LET params == engine_params(seed, n, n, n, 0)
             data   == generate_data(PRNGKey(seed))
         IN  call' = Called("total_log_likelihood_permuted", params, data, << >>,
                            << rearranged(data, order) >>, NoMixState, TRUE,
                            << mixture_loglike(params[1], params[2], params[3], data),
                               mixture_loglike(params[1], params[2], params[3],
                                               rearranged(data, order)) >>,
                            NoMixState)
    /\ UNCHANGED notebookvars

\* weights_loglike(log_weights, alpha_prior)
CallPrior ==
    /\ call = NoCall
    /\ \E seed \in Seeds, n \in Lengths, alpha_prior \in AlphaPriors :
         LET params == engine_params(seed, n, n, n, 0)
         IN  call' = Called("weights_log_prior", params, << >>, alpha_prior, << >>, NoMixState,
                            alpha_fits(params[1], alpha_prior),
                            << weights_loglike(params[1], alpha_prior) >>,
                            NoMixState)
    /\ UNCHANGED notebookvars

\* weights_loglike on the log weights and on the log weights with c added to each
CallPriorShifted ==
    /\ call = NoCall
    /\ \E seed \in Seeds, n \in Lengths, alpha_prior \in AlphaPriors, c \in Shifts :
         LET params == engine_params(seed, n, n, n, 0)
             moved  == array([j \in 1..n |-> FAdd(params[1][j], c)])
         IN  /\ alpha_fits(params[1], alpha_prior)
             /\ call' = Called("weights_log_prior_shifted", params, << >>, alpha_prior,
                               << c, moved >>, NoMixState, TRUE,
                               << weights_loglike(params[1], alpha_prior),
                                  weights_loglike(moved, alpha_prior) >>,
                               NoMixState)
    /\ UNCHANGED notebookvars

\* a bug: vectors of unequal length are cut to the shortest and the loss returned
CallLoss_truncating ==
    /\ call = NoCall
    /\ \E seed \in Seeds, n_weights \in Lengths, n_mus \in Lengths, n_scales \in Lengths,
          offset \in LogScaleOffsets, alpha_prior \in AlphaPriors :
         LET params == engine_params(seed, n_weights, n_mus, n_scales, offset)
             data   == generate_data(PRNGKey(seed))
             cut    == truncated(<< params[1], params[2], params[3] >>)
             alpha  == [j \in 1..Len(cut[1]) |->
                           alpha_prior[IF j <= Len(alpha_prior) THEN j ELSE 1]]
         IN  call' = Called("negative_log_posterior", params, data, alpha_prior, << >>,
                            NoMixState, TRUE,
                            << negative_log_posterior(cut, data, alpha) >>,
                            NoMixState)
    /\ UNCHANGED notebookvars

\* negative_log_posterior(params, data, alpha_prior)
CallLoss ==
    /\ call = NoCall
    /\ \E seed \in Seeds, n_weights \in Lengths, n_mus \in Lengths, n_scales \in Lengths,
          offset \in LogScaleOffsets, alpha_prior \in AlphaPriors :
         LET params == engine_params(seed, n_weights, n_mus, n_scales, offset)
             data   == generate_data(PRNGKey(seed))
         IN  call' = Called("negative_log_posterior", params, data, alpha_prior, << >>,
                            NoMixState,
                            same_length(params) /\ alpha_fits(params[1], alpha_prior),
                            << negative_log_posterior(params, data, alpha_prior) >>,
                            NoMixState)
    /\ UNCHANGED notebookvars

\* the record of state = step(0, state, ...): new_state is returned and bound
stepped(params, data, state_in, new_state) ==
    Called("step", params, data, << >>, << 0 >>, state_in, same_length(params),
           << new_state >>, new_state)

\* state = step(i, state, ...) on state = adam_init(params)
CallStep ==
    /\ call = NoCall
    /\ \E seed \in Seeds, n_weights \in Lengths, n_mus \in Lengths, n_scales \in Lengths,
          offset \in LogScaleOffsets :
         LET params == engine_params(seed, n_weights, n_mus, n_scales, offset)
             data   == generate_data(PRNGKey(seed))
         IN  call' = stepped(params, data, adam_init(params),
                             mixture_step(0, adam_init(params), data))
    /\ UNCHANGED notebookvars

\* the results of run and the losses of its history
run_results(folded, data) ==
    << folded.final, folded.history,
       [k \in 1..Len(folded.history) |-> get_loss(folded.history[k], data)] >>

\* final_state, state_history = run(adam_init(params), data, n), and the losses of
\* the history
CallRun ==
    /\ call = NoCall
    /\ \E seed \in Seeds, n_weights \in Lengths, n_mus \in Lengths, n_scales \in Lengths,
          offset \in LogScaleOffsets, n \in 0..MaxIter :
         LET params == engine_params(seed, n_weights, n_mus, n_scales, offset)
             data   == generate_data(PRNGKey(seed))
         IN  call' = Called("run", params, data, << >>, << n >>, adam_init(params),
                            same_length(params),
                            run_results(mixture_run(adam_init(params), data, n), data),
                            adam_init(params))
    /\ UNCHANGED notebookvars

\* the caller goes on to its next call
Return ==
    /\ call # NoCall
    /\ call' = NoCall
    /\ UNCHANGED notebookvars

EngineNext ==
    \/ CallComponent
    \/ CallOneComponentMixture
    \/ CallLikelihood
    \/ CallLikelihoodPermuted
    \/ CallPrior
    \/ CallPriorShifted
    \/ CallLoss
    \/ CallStep
    \/ CallRun
    \/ Return

EngineSpec == EngineInit /\ [][EngineNext]_vars

----------------------------------------------------------------------------
(* The cells of the mixture notebook.  A cell can be executed again, in    *)
(* any order, once the names it reads are assigned.                        *)

\* the notebook before its first cell: key = random.PRNGKey(100)
MixInit ==
    /\ key = PRNGKey(100)
    /\ key_uses = {}
    /\ walk_not_called
    /\ num_iterations = MaxIter
    /\ pc = "mixture"
    /\ data_mixture = << >> /\ params_init = << >> /\ grads = << >>
    /\ params_opt = << >> /\ loss_log = << >> /\ init_log = << >>
    /\ initial_state = NoMixState /\ final_state = NoMixState
    /\ states_history = << >>
    /\ X = << >> /\ y_true = << >> /\ params_initial = NoParams
    /\ loop_i = 0 /\ loop_state = NoState /\ loop_params = NoParams
    /\ loop_g = NoParams /\ loop_calls = << >>
    /\ carry = NoState /\ idx = 0 /\ ys = << >> /\ calls = << >>
    /\ executions = << >>
    /\ runs = << >> /\ final_states = << >> /\ states_histories = << >>
    /\ part_i = 0 /\ part_state = NoState /\ part_history = << >>
    /\ jit_cache = << >> /\ jit_i = 0 /\ jit_state = NoState /\ jit_history = << >>
    /\ jit_final_states = << >> /\ jit_states_histories = << >>
    /\ call = NoCall

\* what the mixture notebook leaves alone
notmixture == << X, y_true, params_initial, num_iterations, pc, loopvars, carry, idx, ys,
                 calls, executions, vmapvars, call, partvars, jitvars, walkvars >>

\* what had been executed when a cell was: the data were drawn, the gradient was
\* evaluated and the training was run
executed_before ==
    [drawn |-> data_mixture # << >>,
     trained |-> grads # << >> /\ final_state # NoMixState]

\* the cell that draws draws_1 and draws_2 from the halves of key
GenerateData ==
    /\ pc = "mixture"
    /\ data_mixture' = generate_data(key)
    /\ key_uses' = key_uses \cup generate_data_uses(key)
    /\ UNCHANGED << notmixture, key, params_init, grads, params_opt, loss_log, init_log,
                    initial_state, final_state, states_history >>

\* a bug: the key is replaced by the last of its four parts, as in
\* "key, k1, k2, k3 = random.split(key, 4)"
InitParams_consuming_key ==
    /\ pc = "mixture"
    /\ Len(init_log) < MaxExecutions
    /\ params_init' = draw_params(key, N_MIXTURE_COMPONENTS, N_MIXTURE_COMPONENTS,
                                  N_MIXTURE_COMPONENTS)
    /\ init_log' = Append(init_log, [params |-> params_init', before |-> executed_before])
    /\ key_uses' = key_uses \cup draw_params_uses(key)
    /\ key' = random_split(key, 4)[4]
    /\ UNCHANGED << notmixture, data_mixture, grads, params_opt, loss_log,
                    initial_state, final_state, states_history >>

\* the cell that splits key in four and draws params_init from the first three parts
InitParams ==
    /\ pc = "mixture"
    /\ Len(init_log) < MaxExecutions
    /\ params_init' = draw_params(key, N_MIXTURE_COMPONENTS, N_MIXTURE_COMPONENTS,
                                  N_MIXTURE_COMPONENTS)
    /\ init_log' = Append(init_log, [params |-> params_init', before |-> executed_before])
    /\ key_uses' = key_uses \cup draw_params_uses(key)
    /\ UNCHANGED << notmixture, key, data_mixture, grads, params_opt, loss_log,
                    initial_state, final_state, states_history >>

\* the output of a cell loss_mixture_weights(params, data_mixture)
loss_output(name, params, data, value) ==
    [of |-> name, params |-> params, data |-> data, value |-> value,
     before |-> executed_before]

\* loss_mixture_weights(params_init, data_mixture), before the training and after it
LossInit ==
    /\ pc = "mixture"
    /\ data_mixture # << >> /\ params_init # << >>
    /\ Len(loss_log) < MaxExecutions
    /\ loss_log' = Append(loss_log,
                          loss_output("params_init", params_init, data_mixture,
                                      loss_mixture_weights(params_init, data_mixture)))
    /\ UNCHANGED << notmixture, key_uses, key, data_mixture, params_init, grads, params_opt,
                    init_log, initial_state, final_state, states_history >>

\* dloss_mixture_weights(params_init, data_mixture)
Differentiate ==
    /\ pc = "mixture"
    /\ data_mixture # << >> /\ params_init # << >>
    /\ grads' = dloss_mixture_weights(params_init, data_mixture)
    /\ UNCHANGED << notmixture, key_uses, key, data_mixture, params_init, params_opt, loss_log,
                    init_log, initial_state, final_state, states_history >>

\* what the training cell assigns: the initial state, the final state, the history
trained(s0, folded) ==
    /\ initial_state' = s0
    /\ final_state' = folded.final
    /\ states_history' = folded.history

\* a bug: the optimizer works on the arrays of params_init themselves, which hold
\* the optimized parameters after the training
Train_in_place ==
    /\ pc = "mixture"
    /\ data_mixture # << >> /\ params_init # << >>
    /\ trained(adam_init(params_init),
               mixture_run(adam_init(params_init), data_mixture, num_iterations))
    /\ params_init' = adam_get_params(final_state')
    /\ UNCHANGED << notmixture, key_uses, key, data_mixture, grads, params_opt, loss_log,
                    init_log >>

\* initial_state = adam_init(params_init)
\* final_state, state_history = lax.scan(step_scannable, initial_state, np.arange(1000))
Train ==
    /\ pc = "mixture"
    /\ data_mixture # << >> /\ params_init # << >>
    /\ trained(adam_init(params_init),
               mixture_run(adam_init(params_init), data_mixture, num_iterations))
    /\ UNCHANGED << notmixture, key_uses, key, data_mixture, params_init, grads, params_opt,
                    loss_log, init_log >>

\* params_opt = adam_get_params(final_state)
GetParamsOpt ==
    /\ pc = "mixture"
    /\ final_state # NoMixState
    /\ params_opt' = adam_get_params(final_state)
    /\ UNCHANGED << notmixture, key_uses, key, data_mixture, params_init, grads, loss_log, init_log,
                    initial_state, final_state, states_history >>

\* loss_mixture_weights(params_opt, data_mixture)
LossOpt ==
    /\ pc = "mixture"
    /\ data_mixture # << >> /\ params_opt # << >>
    /\ Len(loss_log) < MaxExecutions
    /\ loss_log' = Append(loss_log,
                          loss_output("params_opt", params_opt, data_mixture,
                                      loss_mixture_weights(params_opt, data_mixture)))
    /\ UNCHANGED << notmixture, key_uses, key, data_mixture, params_init, grads, params_opt,
                    init_log, initial_state, final_state, states_history >>

MixNext ==
    \/ GenerateData
    \/ InitParams
    \/ LossInit
    \/ Differentiate
    \/ Train
    \/ GetParamsOpt
    \/ LossOpt

MixSpec == MixInit /\ [][MixNext]_vars

----------------------------------------------------------------------------
(* gaussian_random_walk_python(num_realizations, num_timesteps):           *)
(*     rws = []                                                            *)
(*     for i in range(num_realizations):                                   *)
(*         rw = []                                                         *)
(*         prev_draw = 0                                                   *)
(*         for t in range(num_timesteps):                                  *)
(*             prev_draw = onp.random.normal(loc=prev_draw)                *)
(*             rw.append(prev_draw)                                        *)
(*         rws.append(rw)                                                  *)
(*     return rws                                                          *)
(* The draws come from the global generator of onp.random, which the       *)
(* notebook does not seed: it starts in any state.  The interpreter runs   *)
(* the call to its end, hence the fairness of WalkSpec.                    *)

\* the standard normal draw the generator makes in state g: one of -1, 0, 1
standard_normal(g) == ((g % 3) - 1) * SCALE

\* the state of the generator after a draw
after_draw(g) == (g * 5 + 3) % KeyMod

\* onp.random.normal(loc=loc) with the generator in state g
onp_random_normal(loc, g) == loc + standard_normal(g)

WalkInit ==
    \E realizations \in -1..MaxRealizations, timesteps \in -1..MaxTimesteps,
       seed \in 0..MaxSeed :
        /\ num_realizations = realizations
        /\ num_timesteps = timesteps
        /\ generator = seed
        /\ pc = "walk_call"
        /\ walk_i = 0 /\ walk_t = 0 /\ rws = << >> /\ rw = << >> /\ prev_draw = 0
        /\ draw_calls = << >> /\ trajectories_python = << >>
        /\ key = 0 /\ key_uses = {}
        /\ X = << >> /\ y_true = << >> /\ params_initial = NoParams
        /\ num_iterations = 0
        /\ loop_i = 0 /\ loop_state = NoState /\ loop_params = NoParams
        /\ loop_g = NoParams /\ loop_calls = << >>
        /\ initial_state = NoState /\ carry = NoState /\ idx = 0 /\ ys = << >>
        /\ calls = << >>
        /\ final_state = NoState /\ states_history = << >> /\ executions = << >>
        /\ runs = << >> /\ final_states = << >> /\ states_histories = << >>
        /\ data_mixture = << >> /\ params_init = << >> /\ grads = << >>
        /\ params_opt = << >> /\ loss_log = << >> /\ init_log = << >>
        /\ part_i = 0 /\ part_state = NoState /\ part_history = << >>
        /\ jit_cache = << >> /\ jit_i = 0 /\ jit_state = NoState /\ jit_history = << >>
        /\ jit_final_states = << >> /\ jit_states_histories = << >>
        /\ call = NoCall

\* what the function leaves alone: the names of the notebooks
notwalk == << inputs, loopvars, scanvars, scanout, vmapvars, call, mixvars, partvars,
             jitvars, num_realizations, num_timesteps >>

\* rws = []
WalkCall ==
    /\ pc = "walk_call"
    /\ rws' = << >>
    /\ walk_i' = 0
    /\ pc' = "walk_for_i"
    /\ UNCHANGED << notwalk, generator, walk_t, rw, prev_draw, draw_calls,
                    trajectories_python >>

\* for i in range(num_realizations): the next i, or the end of the loop
WalkForI ==
    /\ pc = "walk_for_i"
    /\ IF walk_i < num_realizations
       THEN walk_i' = walk_i + 1 /\ pc' = "walk_new_rw"
       ELSE walk_i' = walk_i /\ pc' = "walk_return"
    /\ UNCHANGED << notwalk, generator, walk_t, rws, rw, prev_draw, draw_calls,
                    trajectories_python >>

\* rw = []
WalkNewRw ==
    /\ pc = "walk_new_rw"
    /\ rw' = << >>
    /\ pc' = "walk_reset"
    /\ UNCHANGED << notwalk, generator, walk_i, walk_t, rws, prev_draw, draw_calls,
                    trajectories_python >>

\* a bug: prev_draw is set once, before the outer loop, and keeps the last value
\* of the trajectory before
WalkReset_once ==
    /\ pc = "walk_reset"
    /\ prev_draw' = prev_draw
    /\ walk_t' = 0
    /\ pc' = "walk_for_t"
    /\ UNCHANGED << notwalk, generator, walk_i, rws, rw, draw_calls, trajectories_python >>

\* prev_draw = 0, and the inner loop starts
WalkReset ==
    /\ pc = "walk_reset"
    /\ prev_draw' = 0
    /\ walk_t' = 0
    /\ pc' = "walk_for_t"
    /\ UNCHANGED << notwalk, generator, walk_i, rws, rw, draw_calls, trajectories_python >>

\* for t in range(num_timesteps): the next t, or the end of the loop
WalkForT ==
    /\ pc = "walk_for_t"
    /\ IF walk_t < num_timesteps
       THEN walk_t' = walk_t + 1 /\ pc' = "walk_draw"
       ELSE walk_t' = walk_t /\ pc' = "walk_append_rw"
    /\ UNCHANGED << notwalk, generator, walk_i, rws, rw, prev_draw, draw_calls,
                    trajectories_python >>

\* prev_draw = onp.random.normal(loc=prev_draw)
WalkDraw ==
    /\ pc = "walk_draw"
    /\ prev_draw' = onp_random_normal(prev_draw, generator)
    /\ generator' = after_draw(generator)
    /\ draw_calls' = Append(draw_calls, [i |-> walk_i - 1, t |-> walk_t - 1,
                                         loc |-> prev_draw, value |-> prev_draw'])
    /\ pc' = "walk_append"
    /\ UNCHANGED << notwalk, walk_i, walk_t, rws, rw, trajectories_python >>

\* rw.append(prev_draw)
WalkAppend ==
    /\ pc = "walk_append"
    /\ rw' = Append(rw, prev_draw)
    /\ pc' = "walk_for_t"
    /\ UNCHANGED << notwalk, generator, walk_i, walk_t, rws, prev_draw, draw_calls,
                    trajectories_python >>

\* rws.append(rw)
WalkAppendRw ==
    /\ pc = "walk_append_rw"
    /\ rws' = Append(rws, rw)
    /\ pc' = "walk_for_i"
    /\ UNCHANGED << notwalk, generator, walk_i, walk_t, rw, prev_draw, draw_calls,
                    trajectories_python >>

\* return rws, assigned to trajectories_python
WalkReturn ==
    /\ pc = "walk_return"
    /\ trajectories_python' = rws
    /\ pc' = "walk_returned"
    /\ UNCHANGED << notwalk, generator, walk_i, walk_t, rws, rw, prev_draw, draw_calls >>

WalkNext ==
    \/ WalkCall
    \/ WalkForI
    \/ WalkNewRw
    \/ WalkReset
    \/ WalkForT
    \/ WalkDraw
    \/ WalkAppend
    \/ WalkAppendRw
    \/ WalkReturn

WalkSpec == WalkInit /\ [][WalkNext]_vars /\ WF_vars(WalkNext)

----------------------------------------------------------------------------
(* Reference values for the properties.                                    *)

\* run(initial_state, data, num_iterations): the scan from s0 over n indices
run(s0, n) == lax_scan(s0, arange(n))

\* whether s is what init makes of the parameters p
Initialized(s, p) ==
    /\ get_params(s) = p
    /\ Len(s.m.W) = Len(p.W) /\ Len(s.v.W) = Len(p.W)
    /\ \A c \in 1..Len(p.W) : s.m.W[c] = 0 /\ s.v.W[c] = 0
    /\ s.m.b = 0 /\ s.v.b = 0

\* whether the sequence s starts with the sequence t
StartsWith(s, t) == Len(s) >= Len(t) /\ SubSeq(s, 1, Len(t)) = t

----------------------------------------------------------------------------
(* The properties.                                                         *)

\* C1: lax.scan stacks exactly one history entry per loop iteration, so a run over
\* num_iterations indices returns a history of exactly num_iterations entries
\* (none when num_iterations = 0).
C1_HistoryLength ==
    /\ pc = "scan" => Len(ys) = idx /\ idx <= num_iterations
    /\ \A e \in 1..Len(executions) : Len(executions[e].history) = num_iterations
    /\ executions # << >> => Len(states_history) = num_iterations

C1_Witness ==
    pc = "scan_done" /\ num_iterations >= 2 /\ Len(states_history) = num_iterations

\* C2: for num_iterations >= 1 the final state a run returns is the last entry of
\* the history it returns.
C2_FinalIsLastOfHistory ==
    (executions # << >> /\ num_iterations >= 1) =>
        /\ states_history # << >>
        /\ final_state = states_history[Len(states_history)]
        /\ \A e \in 1..Len(executions) :
              executions[e].final = executions[e].history[Len(executions[e].history)]

C2_Witness ==
    /\ pc = "scan_done" /\ num_iterations >= 2
    /\ final_state = states_history[num_iterations]
    /\ final_state # initial_state

\* C3: a run is a sequential fold of step: the first history entry is step applied
\* to initial_state, entry k is step applied to entry k-1, and the scan hands its
\* function the immediate predecessor and the indices 0, 1, 2, ... in that order.
C3_SequentialFold ==
    /\ Len(calls) = Len(ys)
    /\ \A k \in 1..Len(ys) :
          LET pred == IF k = 1 THEN initial_state ELSE ys[k - 1]
          IN  /\ ys[k] = step(k - 1, pred)
              /\ calls[k] = [i |-> k - 1, state |-> pred]

C3_Witness ==
    Len(ys) >= 2 /\ ys[2] = step(1, ys[1]) /\ ys[2] # ys[1] /\ ys[1] # initial_state

C5_RunManyEqualsRuns ==
    pc = "done" =>
        LET ks == random_split(key, N_INITIALIZATIONS)
        IN  /\ Len(final_states) = N_INITIALIZATIONS
            /\ Len(states_histories) = N_INITIALIZATIONS
            /\ \A r \in 1..N_INITIALIZATIONS :
                  LET alone == run(init(init_fun(ks[r])), num_iterations)
                  IN  /\ final_states[r] = alone.final
                      /\ states_histories[r] = alone.history

C5_Witness ==
    /\ pc = "done" /\ num_iterations >= 2
    /\ final_states[1] # final_states[2]
    /\ Len(states_histories[2]) = num_iterations

\* C6: training starts under vmap do not interfere: whatever the interleaving, a
\* step changes one training start only, appends to its history without touching
\* the earlier entries, and leaves it in the state a run of its own reaches after as
\* many steps.
C6_NonInterference ==
    [][ (pc = "vmap" /\ pc' = "vmap") =>
          \E r \in 1..Len(runs) :
             /\ \A q \in (1..Len(runs)) \ {r} : runs'[q] = runs[q]
             /\ runs'[r].initial = runs[r].initial
             /\ runs'[r].idx = runs[r].idx + 1
             /\ StartsWith(runs'[r].ys, runs[r].ys)
             /\ runs'[r].carry = run(runs[r].initial, runs'[r].idx).final
             /\ runs'[r].ys = run(runs[r].initial, runs'[r].idx).history ]_vars

C6_Witness ==
    /\ pc = "vmap" /\ Len(runs) >= 2
    /\ runs[1].idx = 1 /\ runs[2].idx = 2
    /\ runs[1].initial # runs[2].initial

\* C7: a step is all-or-nothing: the state the explicit loop holds, the state the
\* scan carries and every entry of the history are the parameters and both moment
\* accumulators of one and the same number of steps, the number the driver counts.
C7_StepAtomic ==
    /\ loop_state # NoState =>
          loop_state = run(init(params_initial), Len(loop_calls)).final
    /\ carry # NoState =>
          LET whole == run(initial_state, idx)
          IN  carry = whole.final /\ ys = whole.history

C7_Witness ==
    /\ pc = "loop_next" /\ Len(loop_calls) >= 2
    /\ loop_state.x # loop_calls[2].state.x
    /\ loop_state.m # loop_calls[2].state.m
    /\ loop_state.v # loop_calls[2].state.v

\* C8: a step does not change what it is given: the data, the initial parameters,
\* the initial state, the parameters and gradient read before the update and the
\* history entries already produced stay what they were.
C8_NoMutation ==
    [][ /\ X' = X /\ y_true' = y_true /\ params_initial' = params_initial
        /\ pc = "loop_update" =>
              /\ loop_params' = loop_params /\ loop_g' = loop_g
              /\ loop_params' = get_params(loop_calls'[Len(loop_calls')].state)
              /\ StartsWith(loop_calls', loop_calls)
        /\ pc = "scan" =>
              /\ initial_state' = initial_state
              /\ StartsWith(ys', ys)
              /\ StartsWith(calls', calls)
              /\ idx' > idx => calls'[idx'].state = carry ]_vars

C8_Witness ==
    pc = "scan" /\ idx >= 2 /\ ys[1] # ys[2] /\ carry # initial_state

----------------------------------------------------------------------------
(* The properties of the mixture functions, under EngineSpec.              *)

\* whether every entry of the vector is a finite float
AllFinite(xs) == \A j \in 1..Len(xs) : IsFinite(xs[j])

\* whether every entry of the concentration is strictly positive
AllPositive(alpha) == \A j \in 1..Len(alpha) : alpha[j] > 0

\* whether some parameter of the optimizer state is NaN
HasNaN(state) ==
    \E k \in 1..Len(state.x) : \E j \in 1..Len(state.x[k]) : IsNaN(state.x[k][j])

ShapesFit ==
    /\ call.op \in {"total_log_likelihood", "negative_log_posterior", "step", "run"}
          => same_length(call.params)
    /\ call.op \in {"weights_log_prior", "negative_log_posterior"}
          => alpha_fits(call.params[1], call.alpha_prior)

----------------------------------------------------------------------------
(* The properties of the cells of the mixture notebook, under MixSpec.     *)

----------------------------------------------------------------------------
(* The property of just-in-time compilation, under JitSpec.                *)

----------------------------------------------------------------------------
(* The order of the operations of one step, under Spec.                    *)

\* C21: inside one step the parameters are extracted from the input state, the
\* gradient is evaluated at exactly those parameters, and the update is applied
\* to that same input state: the explicit loop changes its state only in its
\* update statement, after get_params and the gradient have read the state
\* being updated, and every state the scan stacks is the update of the state
\* it was handed with the gradient at the parameters of that state.
C21_GradientAtUpdatedState ==
    [][ /\ (pc = "loop_get_params" /\ pc' # pc) =>
              /\ pc' = "loop_grad"
              /\ loop_params' = get_params(loop_state)
              /\ loop_state' = loop_state
        /\ (pc = "loop_grad" /\ pc' # pc) =>
              /\ pc' = "loop_update"
              /\ loop_params = get_params(loop_state)
              /\ loop_g' = dmseloss(get_params(loop_state), X, y_true)
              /\ loop_state' = loop_state
        /\ (pc = "loop_update" /\ pc' # pc) =>
              /\ loop_params = get_params(loop_state)
              /\ loop_g = dmseloss(get_params(loop_state), X, y_true)
              /\ loop_state' = update(loop_i, loop_g, loop_state)
        /\ (loop_state' # loop_state /\ pc # "loop_cell") => pc = "loop_update"
        /\ (pc = "scan" /\ idx' = idx + 1) =>
              /\ ys'[idx'] = update(idx, dmseloss(get_params(carry), X, y_true), carry)
              /\ carry' = ys'[idx'] ]_vars

\* the second update of the explicit loop is done: its gradient was taken at the
\* parameters of the state the first update made, which are neither the initial
\* parameters nor the parameters of the state the second update made
C21_Witness ==
    /\ pc = "loop_next" /\ Len(loop_calls) = 2
    /\ loop_params = get_params(loop_calls[2].state)
    /\ loop_params # params_initial
    /\ loop_params # get_params(loop_state)
    /\ loop_g = dmseloss(loop_params, X, y_true)
    /\ loop_g # dmseloss(params_initial, X, y_true)
    /\ loop_g # dmseloss(get_params(loop_state), X, y_true)
    /\ loop_state = update(loop_i, loop_g, loop_calls[2].state)

----------------------------------------------------------------------------
(* The three drivers of the optimizer, under JitSpec.                      *)

\* the state the explicit loop held after its iteration k
loop_state_after(k) ==
    IF k < Len(loop_calls) THEN loop_calls[k + 1].state ELSE loop_state

\* C23: the explicit loop over get_params, the gradient and update(i, g, state),
\* the loop over step_partial(i, state) and lax.scan of the scannable step over
\* np.arange(n), started from the same initial state, end in the same state, and
\* the state each loop holds after its iteration k is entry k of the history of
\* the scan.
C23_DriversAgree ==
    /\ pc = "partial_loop" =>
          /\ Len(part_history) = part_i
          /\ part_history = SubSeq(states_history, 1, part_i)
          /\ part_state = (IF part_i = 0 THEN initial_state ELSE states_history[part_i])
    /\ pc \in {"scan_done", "partial_loop", "jit_loop_cell"} =>
          /\ initial_state = init(params_initial)
          /\ Len(loop_calls) = num_iterations
          /\ Len(states_history) = num_iterations
          /\ loop_state = final_state
          /\ \A k \in 1..num_iterations :
                /\ loop_state_after(k) = states_history[k]
                /\ loop_calls[k].i = k - 1
    /\ pc = "jit_loop_cell" =>
          /\ part_state = final_state
          /\ part_state = loop_state
          /\ part_history = states_history

\* the three drivers have run the largest number of iterations, ended in one
\* state, and the training moved the state in every iteration
C23_Witness ==
    /\ pc = "jit_loop_cell"
    /\ num_iterations = MaxIter
    /\ Len(loop_calls) = MaxIter /\ Len(part_history) = MaxIter
    /\ Len(states_history) = MaxIter
    /\ loop_state = part_state /\ part_state = final_state
    /\ final_state # initial_state
    /\ \A k \in 1..(MaxIter - 1) : states_history[k] # states_history[k + 1]
    /\ part_history[MaxIter - 1] = loop_calls[MaxIter].state

----------------------------------------------------------------------------
(* The shape of the mixture parameters, under EngineSpec.                  *)

\* a tuple of exactly three vectors of n entries each
ThreeVectorsOf(t, n) ==
    Len(t) = 3 /\ \A k \in 1..3 : Len(t[k]) = n

\* an optimizer state whose parameters and both accumulators have that shape
StateOfShape(state, n) ==
    /\ ThreeVectorsOf(state.x, n)
    /\ ThreeVectorsOf(state.m, n)
    /\ ThreeVectorsOf(state.v, n)

\* C24: the shape of the mixture parameters is preserved: in the initial state
\* handed to a step or a run, in the state a step returns, in every state of the
\* history of a run and in its final state, the parameters are a tuple of three
\* vectors of the length the parameters were initialized with, the number of
\* components, and both moment accumulators have that shape.
C24_ShapePreserved ==
    (call.op \in {"step", "run"} /\ ~call.raised) =>
        LET n == Len(call.params[1])
        IN  /\ ThreeVectorsOf(call.params, n)
            /\ StateOfShape(call.state_in, n)
            /\ adam_get_params(call.state_in) = call.params
            /\ StateOfShape(call.value[1], n)
            /\ ThreeVectorsOf(adam_get_params(call.value[1]), n)
            /\ call.op = "run" =>
                  /\ Len(call.value[2]) = call.extra[1]
                  /\ \A k \in 1..Len(call.value[2]) : StateOfShape(call.value[2][k], n)

\* a run of the largest number of iterations on N_MIXTURE_COMPONENTS components
\* has returned, and its steps moved the parameters and both accumulators
C24_Witness ==
    /\ call.op = "run" /\ ~call.raised
    /\ Len(call.params[1]) = N_MIXTURE_COMPONENTS
    /\ call.extra[1] = MaxIter
    /\ Len(call.value[2]) = MaxIter
    /\ call.value[1] = call.value[2][MaxIter]
    /\ call.value[1].x # call.state_in.x
    /\ call.value[1].m # call.state_in.m
    /\ call.value[1].v # call.state_in.v
    /\ StateOfShape(call.value[1], N_MIXTURE_COMPONENTS)

----------------------------------------------------------------------------
(* The uses of the keys, under Spec.                                       *)

\* C22: every key is used at most once: no key that one statement has handed to
\* a split or to a draw is handed to a split or a draw by another statement.
C22_KeysUsedOnce ==
    \A u, w \in key_uses : u.key = w.key => u.by = w.by

----------------------------------------------------------------------------
(* The random walk in pure Python, under WalkSpec.                         *)

\* every call of onp.random.normal so far: the first draw of a trajectory is
\* centred on 0, every later one on the draw before it in the same trajectory
DrawsCentred ==
    \A k \in 1..Len(draw_calls) :
        LET c == draw_calls[k]
        IN  IF c.t = 0 THEN c.loc = 0
            ELSE /\ draw_calls[k - 1].i = c.i
                 /\ draw_calls[k - 1].t = c.t - 1
                 /\ c.loc = draw_calls[k - 1].value

\* what was returned is what was drawn: value t of trajectory i is the draw of
\* the call made for i and t
ReturnedAreDraws ==
    \A i \in 1..Len(trajectories_python) : \A t \in 1..Len(trajectories_python[i]) :
        LET k == (i - 1) * Len(trajectories_python[i]) + t
        IN  /\ k <= Len(draw_calls)
            /\ draw_calls[k].i = i - 1 /\ draw_calls[k].t = t - 1
            /\ draw_calls[k].value = trajectories_python[i][t]

\* n trajectories of m values each were returned
ReturnedShape(n, m) ==
    /\ Len(trajectories_python) = n
    /\ \A i \in 1..Len(trajectories_python) : Len(trajectories_python[i]) = m

\* a count as range() takes it: a negative one gives no iteration
AsCount(n) == IF n < 0 THEN 0 ELSE n

====
